---------------------------- MODULE Spec2Model ----------------------------
(***************************************************************************)
(* Model of the options screener of trading_bot.py: OptionsScreener        *)
(* (get_current_price, get_options_chain, screen_csp,                      *)
(* screen_bull_put_spread, screen_all_stocks) and main.                    *)
(*                                                                         *)
(* Numbers.  Prices, strikes and quotes are integers counting tenths of a  *)
(* currency unit (100.0 is 1000, SPREAD_WIDTH 5.00 is 50, the 0.50         *)
(* tolerance is 5).  Every derived quantity (premium, return_on_risk,      *)
(* annualized_return, ...) is an exact rational [n, d] in lowest terms     *)
(* with d > 0; the program computes them in binary floating point, whose   *)
(* rounding is not modelled.                                               *)
(***************************************************************************)
EXTENDS Integers, Sequences, FiniteSets, TLC

VARIABLES
    cfg,      \* the module-level screening criteria (trading_bot.py 86-94)
    pc,       \* position in main / screen_all_stocks
    idx,      \* the loop variable i of screen_all_stocks (1-based)
    results,  \* results = {'CSP': [...], 'BPS': [...]}
    calls,    \* per symbol: requests made to the market data source
    errlog,   \* the logger.error lines written, as <<symbol index, origin>>
    snapshot, \* the answers a frozen market data source gives (SpecSnap,
              \* SpecScreen); << >> where every request is answered afresh
    first,    \* the results returned by the first of two scans (SpecSnap)
    run,      \* which scan is running: 1 or 2 (SpecSnap)
    trace,    \* the iterations of the short-leg loop of the last
              \* screen_bull_put_spread call (SpecScreen)
    bracket   \* the variables of the intraday bracket-order script
              \* (SpecBracket)

vars ==
    <<cfg, pc, idx, results, calls, errlog, snapshot, first, run, trace,
      bracket>>

\* The variables of the intraday script before it has assigned any.
Unassigned ==
    [prev_open |-> 0, prev_close |-> 0, market_bias |-> "",
     trade_direction |-> "", high |-> 0, low |-> 0,
     entry |-> 0, stop |-> 0, target |-> 0, placed |-> << >>]

---------------------------------------------------------------------------
(* Exact rationals *)

Abs(x) == IF x < 0 THEN -x ELSE x

RECURSIVE GCD(_, _)
GCD(a, b) == IF b = 0 THEN a ELSE GCD(b, a % b)

\* n/d in lowest terms with a positive denominator; d = 0 (a division by
\* zero in the program) is kept as [n, 0].
Rat(n, d) ==
    IF d = 0 THEN [n |-> n, d |-> 0]
    ELSE LET g == GCD(Abs(n), Abs(d))
             s == IF d < 0 THEN -1 ELSE 1
         IN  [n |-> (s * n) \div g, d |-> (s * d) \div g]

I(x) == [n |-> x, d |-> 1]
RSub(a, b) == Rat(a.n * b.d - b.n * a.d, a.d * b.d)
RMul(a, b) == Rat(a.n * b.n, a.d * b.d)
RDiv(a, b) == Rat(a.n * b.d, a.d * b.n)
RLe(a, b) == a.n * b.d <= b.n * a.d
RLt(a, b) == a.n * b.d < b.n * a.d
REq(a, b) == a.n * b.d = b.n * a.d

---------------------------------------------------------------------------
(* Configuration *)

\* The screening criteria as the source sets them (SPREAD_WIDTH in tenths).
DefaultConfig ==
    [MIN_DTE |-> 1, MAX_DTE |-> 7,
     MIN_OTM_PERCENT |-> 5, MAX_OTM_PERCENT |-> 10,
     SPREAD_WIDTH |-> 50, MIN_RETURN_ON_RISK |-> 20,
     MIN_VOLUME |-> 10, MIN_OPEN_INTEREST |-> 50]

MIN_DTE == cfg.MIN_DTE
MAX_DTE == cfg.MAX_DTE
MIN_OTM_PERCENT == cfg.MIN_OTM_PERCENT
MAX_OTM_PERCENT == cfg.MAX_OTM_PERCENT
SPREAD_WIDTH == cfg.SPREAD_WIDTH
MIN_RETURN_ON_RISK == cfg.MIN_RETURN_ON_RISK
MIN_VOLUME == cfg.MIN_VOLUME
MIN_OPEN_INTEREST == cfg.MIN_OPEN_INTEREST

\* The +-0.50 of the long-leg search, in tenths.
Tolerance == 5

\* Number of symbols of the universe handed to OptionsScreener.
NumTickers == 2

top50_sp500_tickers == <<"NVDA", "MSFT", "AAPL", "AMZN">>

\* self.tickers
tickers == SubSeq(top50_sp500_tickers, 1, NumTickers)


---------------------------------------------------------------------------
(* The market data source (yfinance): what one request can answer *)

\* One row of chain.puts, with the columns the screener reads.
Row(s, b, a, v, oi) ==
    [strike |-> s, bid |-> b, ask |-> a, volume |-> v, openInterest |-> oi]

\* One expiration date (a day number) of ticker.options with its puts frame.
Exp(day, puts) == [expiry |-> day, puts |-> puts]

\* datetime.now(): the day number and whether it is exactly midnight.
Morning == [day |-> 0, midnight |-> FALSE]
Midnight == [day |-> 0, midnight |-> TRUE]

\* Rows at a spot of 100.0, whose short-strike window is [90.0, 95.0].
LegA == Row(920, 10, 12, 20, 60)
LegB == Row(920, 175, 193, 20, 60)
LegRich == Row(920, 360, 376, 20, 60)
Far96 == Row(960, 190, 200, 20, 60)
Short95 == Row(950, 20, 22, 20, 60)
Long902 == Row(902, 5, 7, 20, 60)
Long898 == Row(898, 4, 6, 20, 60)
Long893 == Row(893, 5, 7, 20, 60)
Short90 == Row(900, 30, 32, 20, 60)
Long848 == Row(848, 5, 7, 20, 60)
Deep94 == Row(940, 60, 62, 20, 60)
Long89 == Row(890, 5, 7, 20, 60)
Thin93 == Row(930, 2, 4, 5, 25)
Long88 == Row(880, 5, 7, 20, 60)
NoBid91 == Row(910, 0, 2, 20, 60)
Edge95 == Row(950, 15, 17, 20, 60)
Long90 == Row(900, 5, 7, 20, 60)

\* ticker.history(period='1d'): raises, is empty, or has a last Close.
PriceResponses ==
    { [kind |-> "error", close |-> 0],
      [kind |-> "empty", close |-> 0],
      [kind |-> "ok", close |-> 0],
      [kind |-> "ok", close |-> 1000],
      [kind |-> "ok", close |-> 1060] }

\* ticker.options with ticker.option_chain(exp).puts of each expiration:
\* "error" is an exception raised by the request, "malformed" a frame that
\* lacks a column the screeners read, "ok" a well-formed answer.
ChainResponses ==
    { [kind |-> "error", now |-> Morning, exps |-> << >>],
      [kind |-> "ok", now |-> Morning, exps |-> << >>],
      [kind |-> "ok", now |-> Morning, exps |-> <<Exp(6, << >>)>>],
      [kind |-> "malformed", now |-> Morning, exps |-> <<Exp(6, <<LegB>>)>>],
      [kind |-> "ok", now |-> Morning,
       exps |-> <<Exp(1, <<LegB>>), Exp(9, <<LegB, Short95, Long902>>)>>],
      [kind |-> "ok", now |-> Morning, exps |-> <<Exp(6, <<LegB, Far96>>)>>],
      [kind |-> "ok", now |-> Midnight, exps |-> <<Exp(5, <<LegA, NoBid91>>)>>],
      [kind |-> "ok", now |-> Morning,
       exps |-> <<Exp(2, <<LegB>>), Exp(3, <<LegRich>>), Exp(6, <<LegB>>)>>],
      [kind |-> "ok", now |-> Morning,
       exps |-> <<Exp(6, <<Long898, Short95, Long902>>)>>],
      [kind |-> "ok", now |-> Morning,
       exps |-> <<Exp(6, <<LegB, Long902, Short95>>)>>],
      [kind |-> "ok", now |-> Morning,
       exps |-> <<Exp(4, <<Long848, Short90>>),
                  Exp(6, <<Long88, Long89, Long902, NoBid91, Thin93, Deep94,
                           Short95>>),
                  Exp(7, <<Short95, Long893>>),
                  Exp(8, <<Edge95, Long90>>)>>] }

---------------------------------------------------------------------------
(* OptionsScreener.get_current_price, get_options_chain *)

\* Optional values: << >> is None, <<v>> is the value v.
None == << >>
Some(v) == <<v>>

\* get_current_price answering a failed request with a price of 100.0.
get_current_price_or_default(resp) ==
    IF resp.kind = "ok" THEN Some(resp.close) ELSE Some(1000)

\* The price, or None when the request raised or the history is empty.
get_current_price(resp) ==
    IF resp.kind = "ok" THEN Some(resp.close) ELSE None

\* (exp_date - current_date).days: whole days, rounded down.
Days(exp_date, current_date) ==
    IF current_date.midnight THEN exp_date - current_date.day
    ELSE exp_date - current_date.day - 1

\* InDteRange without its lower bound.
InDteRangeLoose(dte) == dte <= MAX_DTE

\* MIN_DTE <= dte <= MAX_DTE
InDteRange(dte) == MIN_DTE <= dte /\ dte <= MAX_DTE

\* puts with the columns expiry and dte added
TagPuts(puts, exp_date, dte) ==
    [k \in 1..Len(puts) |->
        [strike |-> puts[k].strike, bid |-> puts[k].bid, ask |-> puts[k].ask,
         volume |-> puts[k].volume, openInterest |-> puts[k].openInterest,
         expiry |-> exp_date, dte |-> dte]]

\* all_puts: the frames of the expirations inside the DTE range, in order
RECURSIVE AllPuts(_, _)
AllPuts(exps, now) ==
    IF exps = << >> THEN << >>
    ELSE LET e == Head(exps)
             dte == Days(e.expiry, now)
         IN  (IF InDteRange(dte) THEN <<TagPuts(e.puts, e.expiry, dte)>>
              ELSE << >>) \o AllPuts(Tail(exps), now)

\* pd.concat(all_puts, ignore_index=True)
RECURSIVE Concat(_)
Concat(frames) ==
    IF frames = << >> THEN << >> ELSE Head(frames) \o Concat(Tail(frames))

\* The concatenated puts of the expirations in range; None when the request
\* raised, there are no expirations, or none is in range.
get_options_chain(resp) ==
    IF resp.kind = "error" THEN None
    ELSE IF resp.exps = << >> THEN None
    ELSE LET all_puts == AllPuts(resp.exps, resp.now)
         IN  IF all_puts # << >> THEN Some(Concat(all_puts)) ELSE None

---------------------------------------------------------------------------
(* OptionsScreener.screen_csp *)

\* current_price * (1 - MAX_OTM_PERCENT / 100)
min_strike(current_price) ==
    RMul(I(current_price), Rat(100 - MAX_OTM_PERCENT, 100))

\* current_price * (1 - MIN_OTM_PERCENT / 100)
max_strike(current_price) ==
    RMul(I(current_price), Rat(100 - MIN_OTM_PERCENT, 100))

\* InStrikeRange without its upper bound.
InStrikeRangeNoCap(strike, current_price) ==
    RLe(min_strike(current_price), I(strike))

\* min_strike <= strike <= max_strike
InStrikeRange(strike, current_price) ==
    /\ RLe(min_strike(current_price), I(strike))
    /\ RLe(I(strike), max_strike(current_price))

\* (bid + ask) / 2
Mid(row) == Rat(row.bid + row.ask, 2)

\* MeetsReturn with the criterion dropped.
MeetsReturnAlways(return_on_risk) == TRUE

\* return_on_risk >= MIN_RETURN_ON_RISK
MeetsReturn(return_on_risk) == RLe(I(MIN_RETURN_ON_RISK), return_on_risk)

\* return_on_risk * (365 / dte)
Annualized(return_on_risk, dte) == RMul(return_on_risk, Rat(365, dte))

\* ((current_price - strike) / current_price) * 100
OtmPercent(current_price, strike) ==
    RMul(Rat(current_price - strike, current_price), I(100))

\* CspFilter without the volume criterion.
CspFilterAnyVolume(chain, current_price) ==
    SelectSeq(chain, LAMBDA row :
        /\ InStrikeRange(row.strike, current_price)
        /\ row.openInterest >= MIN_OPEN_INTEREST
        /\ row.bid > 0
        /\ row.ask > 0)

\* The rows kept by the boolean mask of screen_csp.
CspFilter(chain, current_price) ==
    SelectSeq(chain, LAMBDA row :
        /\ InStrikeRange(row.strike, current_price)
        /\ row.volume >= MIN_VOLUME
        /\ row.openInterest >= MIN_OPEN_INTEREST
        /\ row.bid > 0
        /\ row.ask > 0)

\* (premium / strike) * 100
CspReturnOnRisk(row) == RMul(RDiv(Mid(row), I(row.strike)), I(100))

\* The dictionary appended for a row that meets the return criterion.
CspCandidate(symbol, current_price, row) ==
    LET premium == Mid(row)
        return_on_risk == CspReturnOnRisk(row)
    IN  [symbol |-> symbol, strategy |-> "CSP",
         current_price |-> current_price,
         strike |-> row.strike, short_strike |-> row.strike,
         premium |-> premium, bid |-> row.bid, ask |-> row.ask,
         credit |-> premium, max_risk |-> row.strike * 100,
         otm_percent |-> OtmPercent(current_price, row.strike),
         return_on_risk |-> return_on_risk,
         annualized_return |-> Annualized(return_on_risk, row.dte),
         expiry |-> row.expiry, dte |-> row.dte,
         volume |-> row.volume, open_interest |-> row.openInterest]

\* The loop over the filtered rows, in row order.
CspCandidates(symbol, current_price, chain) ==
    LET kept == SelectSeq(CspFilter(chain, current_price),
                          LAMBDA row : MeetsReturn(CspReturnOnRisk(row)))
    IN  [k \in 1..Len(kept) |-> CspCandidate(symbol, current_price, kept[k])]

\* `if not current_price`: None or 0.0
NoPrice(current_price) == current_price = None \/ current_price[1] = 0

\* `chain is None or len(chain) == 0`
NoChain(chain) == chain = None \/ chain[1] = << >>

\* One call of screen_csp on the answers the data source gives to its two
\* requests: whether it raised, what it returned, and whether it got as far
\* as requesting the chain.  A frame lacking a column raises at the mask.
screen_csp(symbol, price_resp, chain_resp) ==
    LET current_price == get_current_price(price_resp)
        chain == get_options_chain(chain_resp)
    IN  IF NoPrice(current_price)
        THEN [raised |-> FALSE, candidates |-> << >>, chain_requested |-> FALSE]
        ELSE IF NoChain(chain)
        THEN [raised |-> FALSE, candidates |-> << >>, chain_requested |-> TRUE]
        ELSE IF chain_resp.kind = "malformed"
        THEN [raised |-> TRUE, candidates |-> << >>, chain_requested |-> TRUE]
        ELSE [raised |-> FALSE,
              candidates |-> CspCandidates(symbol, current_price[1], chain[1]),
              chain_requested |-> TRUE]

---------------------------------------------------------------------------
(* OptionsScreener.screen_bull_put_spread *)

\* BpsFilter without the volume and open-interest criteria.
BpsFilterAnyLiquidity(chain, current_price) ==
    SelectSeq(chain, LAMBDA row :
        /\ RLe(RSub(min_strike(current_price), I(SPREAD_WIDTH)), I(row.strike))
        /\ RLe(I(row.strike), max_strike(current_price))
        /\ row.bid > 0
        /\ row.ask > 0)

\* The rows kept by the boolean mask of screen_bull_put_spread.
BpsFilter(chain, current_price) ==
    SelectSeq(chain, LAMBDA row :
        /\ RLe(RSub(min_strike(current_price), I(SPREAD_WIDTH)), I(row.strike))
        /\ RLe(I(row.strike), max_strike(current_price))
        /\ RLe(Rat(MIN_VOLUME, 2), I(row.volume))
        /\ RLe(Rat(MIN_OPEN_INTEREST, 2), I(row.openInterest))
        /\ row.bid > 0
        /\ row.ask > 0)

\* chain['expiry'].unique(): the expiries in order of first appearance
RECURSIVE Unique(_, _)
Unique(chain, seen) ==
    IF chain = << >> THEN << >>
    ELSE IF Head(chain).expiry \in seen THEN Unique(Tail(chain), seen)
    ELSE <<Head(chain).expiry>>
         \o Unique(Tail(chain), seen \cup {Head(chain).expiry})

\* InsertByStrike keeping ascending strike order (ascending=True).
RECURSIVE InsertByStrikeAscending(_, _)
InsertByStrikeAscending(row, sorted) ==
    IF sorted = << >> THEN <<row>>
    ELSE IF Head(sorted).strike <= row.strike
         THEN <<Head(sorted)>> \o InsertByStrikeAscending(row, Tail(sorted))
         ELSE <<row>> \o sorted

\* row put into a sequence already in descending strike order
RECURSIVE InsertByStrike(_, _)
InsertByStrike(row, sorted) ==
    IF sorted = << >> THEN <<row>>
    ELSE IF Head(sorted).strike >= row.strike
         THEN <<Head(sorted)>> \o InsertByStrike(row, Tail(sorted))
         ELSE <<row>> \o sorted

\* SortByStrikeDesc leaving the rows as they were fetched.
SortKeepsOrder(rows) == rows

\* sort_values('strike', ascending=False); the strikes of one expiration are
\* distinct, so the order is determined.
RECURSIVE SortByStrikeDesc(_)
SortByStrikeDesc(rows) ==
    IF rows = << >> THEN << >>
    ELSE InsertByStrike(rows[Len(rows)],
                        SortByStrikeDesc(SubSeq(rows, 1, Len(rows) - 1)))

\* LongOptions with twice the tolerance.
LongOptionsWide(expiry_chain, short_strike) ==
    SelectSeq(expiry_chain, LAMBDA row :
        /\ row.strike >= (short_strike - SPREAD_WIDTH) - 2 * Tolerance
        /\ row.strike <= (short_strike - SPREAD_WIDTH) + 2 * Tolerance)

\* The rows of the expiration within 0.50 of short_strike - SPREAD_WIDTH.
LongOptions(expiry_chain, short_strike) ==
    SelectSeq(expiry_chain, LAMBDA row :
        /\ row.strike >= (short_strike - SPREAD_WIDTH) - Tolerance
        /\ row.strike <= (short_strike - SPREAD_WIDTH) + Tolerance)

\* SpreadRejected without the max_risk test.
SpreadRejectedCreditOnly(max_risk, net_credit) == RLe(net_credit, I(0))

\* SpreadRejected letting a max_risk of exactly zero pass.
SpreadRejectedBelowZero(max_risk, net_credit) ==
    RLt(max_risk, I(0)) \/ RLe(net_credit, I(0))

\* max_risk <= 0 or net_credit <= 0
SpreadRejected(max_risk, net_credit) ==
    RLe(max_risk, I(0)) \/ RLe(net_credit, I(0))

\* BpsCandidate computing risk and return from the nominal SPREAD_WIDTH
\* instead of the distance between the two strikes.
BpsCandidateNominalWidth(symbol, current_price, short_row, long_row) ==
    LET short_premium == Mid(short_row)
        long_premium == Mid(long_row)
        net_credit == RSub(short_premium, long_premium)
        actual_width == short_row.strike - long_row.strike
        max_risk == RMul(RSub(I(SPREAD_WIDTH), net_credit), I(100))
        return_on_risk == RMul(RDiv(net_credit, I(SPREAD_WIDTH)), I(100))
    IN  [symbol |-> symbol, strategy |-> "BPS",
         current_price |-> current_price,
         short_strike |-> short_row.strike, long_strike |-> long_row.strike,
         short_premium |-> short_premium, long_premium |-> long_premium,
         credit |-> net_credit, spread_width |-> actual_width,
         max_risk |-> max_risk,
         otm_percent |-> OtmPercent(current_price, short_row.strike),
         return_on_risk |-> return_on_risk,
         annualized_return |-> Annualized(return_on_risk, short_row.dte),
         expiry |-> short_row.expiry, dte |-> short_row.dte,
         short_volume |-> short_row.volume, long_volume |-> long_row.volume]

\* The dictionary built from a short row and the long row chosen for it.
BpsCandidate(symbol, current_price, short_row, long_row) ==
    LET short_premium == Mid(short_row)
        long_premium == Mid(long_row)
        net_credit == RSub(short_premium, long_premium)
        actual_width == short_row.strike - long_row.strike
        max_risk == RMul(RSub(I(actual_width), net_credit), I(100))
        return_on_risk == RMul(RDiv(net_credit, I(actual_width)), I(100))
    IN  [symbol |-> symbol, strategy |-> "BPS",
         current_price |-> current_price,
         short_strike |-> short_row.strike, long_strike |-> long_row.strike,
         short_premium |-> short_premium, long_premium |-> long_premium,
         credit |-> net_credit, spread_width |-> actual_width,
         max_risk |-> max_risk,
         otm_percent |-> OtmPercent(current_price, short_row.strike),
         return_on_risk |-> return_on_risk,
         annualized_return |-> Annualized(return_on_risk, short_row.dte),
         expiry |-> short_row.expiry, dte |-> short_row.dte,
         short_volume |-> short_row.volume, long_volume |-> long_row.volume]

\* One iteration of the loop over short rows, as the record of what it
\* did with short_row: outcome says where the iteration ended, long holds
\* the strike of long_options.iloc[0] once a long row was found, candidate
\* the dictionary appended to results, if any.
Iteration(short_row, outcome, long, candidate) ==
    [short_strike |-> short_row.strike, expiry |-> short_row.expiry,
     outcome |-> outcome, long |-> long, candidate |-> candidate]

\* The body of the loop over short rows.
SpreadFor(symbol, current_price, short_row, expiry_chain) ==
    IF ~InStrikeRange(short_row.strike, current_price)
    THEN Iteration(short_row, "not_short", << >>, << >>)
    ELSE LET long_options == LongOptions(expiry_chain, short_row.strike)
         IN  IF Len(long_options) = 0
             THEN Iteration(short_row, "no_long", << >>, << >>)
             ELSE LET long_row == long_options[1]
                      c == BpsCandidate(symbol, current_price, short_row,
                                        long_row)
                  IN  IF SpreadRejected(c.max_risk, c.credit)
                      THEN Iteration(short_row, "rejected",
                                     <<long_row.strike>>, << >>)
                      ELSE IF MeetsReturn(c.return_on_risk)
                      THEN Iteration(short_row, "appended",
                                     <<long_row.strike>>, <<c>>)
                      ELSE Iteration(short_row, "low_return",
                                     <<long_row.strike>>, << >>)

\* SpreadsOfExpiry leaving the loop at the first short row without a long
\* row.
RECURSIVE SpreadsOfExpiryStopAtMiss(_, _, _, _)
SpreadsOfExpiryStopAtMiss(symbol, current_price, expiry_chain, k) ==
    IF k > Len(expiry_chain) THEN << >>
    ELSE LET it == SpreadFor(symbol, current_price, expiry_chain[k],
                             expiry_chain)
         IN  IF it.outcome = "no_long" THEN <<it>>
             ELSE <<it>> \o SpreadsOfExpiryStopAtMiss(symbol, current_price,
                                                      expiry_chain, k + 1)

\* The loop over the short rows of one expiration, from position k on.
RECURSIVE SpreadsOfExpiry(_, _, _, _)
SpreadsOfExpiry(symbol, current_price, expiry_chain, k) ==
    IF k > Len(expiry_chain) THEN << >>
    ELSE <<SpreadFor(symbol, current_price, expiry_chain[k], expiry_chain)>>
         \o SpreadsOfExpiry(symbol, current_price, expiry_chain, k + 1)

\* ExpiryRows taking the rows of every expiration.
ExpiryRowsAll(chain, expiry) == chain

\* chain[chain['expiry'] == expiry]
ExpiryRows(chain, expiry) ==
    SelectSeq(chain, LAMBDA row : row.expiry = expiry)

\* The loop over the expirations of the filtered chain.
RECURSIVE SpreadsOfExpiries(_, _, _, _)
SpreadsOfExpiries(symbol, current_price, chain, expiries) ==
    IF expiries = << >> THEN << >>
    ELSE LET expiry_chain ==
                 SortByStrikeDesc(ExpiryRows(chain, Head(expiries)))
         IN  SpreadsOfExpiry(symbol, current_price, expiry_chain, 1)
             \o SpreadsOfExpiries(symbol, current_price, chain, Tail(expiries))

\* Every iteration of the two loops of screen_bull_put_spread, in order.
BpsIterations(symbol, current_price, chain) ==
    LET filtered == BpsFilter(chain, current_price)
    IN  SpreadsOfExpiries(symbol, current_price, filtered,
                          Unique(filtered, {}))

\* The dictionaries appended by a sequence of iterations: the list returned.
RECURSIVE Appended(_)
Appended(iterations) ==
    IF iterations = << >> THEN << >>
    ELSE Head(iterations).candidate \o Appended(Tail(iterations))

BpsCandidates(symbol, current_price, chain) ==
    Appended(BpsIterations(symbol, current_price, chain))

\* One call of screen_bull_put_spread, as for screen_csp.
screen_bull_put_spread(symbol, price_resp, chain_resp) ==
    LET current_price == get_current_price(price_resp)
        chain == get_options_chain(chain_resp)
    IN  IF NoPrice(current_price)
        THEN [raised |-> FALSE, candidates |-> << >>, iterations |-> << >>,
              chain_requested |-> FALSE]
        ELSE IF NoChain(chain)
        THEN [raised |-> FALSE, candidates |-> << >>, iterations |-> << >>,
              chain_requested |-> TRUE]
        ELSE IF chain_resp.kind = "malformed"
        THEN [raised |-> TRUE, candidates |-> << >>, iterations |-> << >>,
              chain_requested |-> TRUE]
        ELSE LET iterations ==
                     BpsIterations(symbol, current_price[1], chain[1])
             IN  [raised |-> FALSE, candidates |-> Appended(iterations),
                  iterations |-> iterations, chain_requested |-> TRUE]

---------------------------------------------------------------------------
(* OptionsScreener.screen_all_stocks and main *)

\* InsertByReturn putting c in front of the entries it ties with.
InsertByReturnBeforeTies(c, sorted) ==
    LET before == SelectSeq(sorted, LAMBDA x :
                      RLt(c.annualized_return, x.annualized_return))
        after == SelectSeq(sorted, LAMBDA x :
                      ~RLt(c.annualized_return, x.annualized_return))
    IN  before \o <<c>> \o after

\* c put into a sequence already in descending order of annualized_return,
\* behind the entries that are not smaller.
InsertByReturn(c, sorted) ==
    LET before == SelectSeq(sorted, LAMBDA x :
                      RLe(c.annualized_return, x.annualized_return))
        after == SelectSeq(sorted, LAMBDA x :
                      ~RLe(c.annualized_return, x.annualized_return))
    IN  before \o <<c>> \o after

\* list.sort(key=lambda x: x['annualized_return'], reverse=True): Python's
\* sort is stable, also with reverse=True.
RECURSIVE SortByReturn(_)
SortByReturn(candidates) ==
    IF candidates = << >> THEN << >>
    ELSE InsertByReturn(candidates[Len(candidates)],
             SortByReturn(SubSeq(candidates, 1, Len(candidates) - 1)))

\* NextSymbol stepping over every other symbol.
NextSymbolSkipping(i) ==
    IF i + 1 < Len(tickers) THEN [pc |-> "csp", idx |-> i + 2]
    ELSE [pc |-> "sort", idx |-> i]

\* Where the loop goes once symbol i is dealt with.
NextSymbol(i) ==
    IF i < Len(tickers) THEN [pc |-> "csp", idx |-> i + 1]
    ELSE [pc |-> "sort", idx |-> i]

\* ExceptContinue leaving the loop instead.
ExceptBreak(i) == [pc |-> "sort", idx |-> i]

\* except Exception: log and `continue`
ExceptContinue(i) == NextSymbol(i)

\* The requests counted after one screener call r on symbol i.
Requested(i, r) ==
    [calls EXCEPT ![i] = [price |-> @.price + 1,
                          chain |-> @.chain + (IF r.chain_requested THEN 1 ELSE 0)]]

\* The error lines written by one screener call r on symbol i.
Logged(i, price_resp, chain_resp, r) ==
    errlog
    \cup (IF price_resp.kind = "error" THEN {<<i, "get_current_price">>} ELSE {})
    \cup (IF r.chain_requested /\ chain_resp.kind = "error"
          THEN {<<i, "get_options_chain">>} ELSE {})
    \cup (IF r.raised THEN {<<i, "screen_all_stocks">>} ELSE {})

Init ==
    /\ cfg = DefaultConfig
    /\ pc = "main"
    /\ idx = 0
    /\ results = [CSP |-> << >>, BPS |-> << >>]
    /\ calls = [k \in 1..Len(tickers) |-> [price |-> 0, chain |-> 0]]
    /\ errlog = {}
    /\ snapshot = << >>
    /\ first = << >>
    /\ run = 1
    /\ trace = << >>
    /\ bracket = Unassigned

\* results kept from an earlier scan instead of a new dictionary.
StaleResults == results

\* results = {'CSP': [], 'BPS': []} at the head of screen_all_stocks
NewResults == [CSP |-> << >>, BPS |-> << >>]

\* main: the screener is built and screen_all_stocks entered.
Main ==
    /\ pc = "main"
    /\ pc' = IF Len(tickers) = 0 THEN "sort" ELSE "csp"
    /\ idx' = 1
    /\ results' = NewResults
    /\ UNCHANGED <<cfg, calls, errlog, snapshot, first, run, trace, bracket>>

\* csp_results = self.screen_csp(symbol); results['CSP'].extend(csp_results)
\* with the data source answering price_resp and chain_resp.
ScreenCspOn(price_resp, chain_resp) ==
    LET r == screen_csp(tickers[idx], price_resp, chain_resp)
        to == ExceptContinue(idx)
    IN  /\ calls' = Requested(idx, r)
        /\ errlog' = Logged(idx, price_resp, chain_resp, r)
        /\ IF r.raised
           THEN /\ pc' = to.pc
                /\ idx' = to.idx
                /\ UNCHANGED results
           ELSE /\ results' = [results EXCEPT !.CSP = @ \o r.candidates]
                /\ pc' = "bps"
                /\ UNCHANGED idx
        /\ UNCHANGED <<cfg, snapshot, first, run, trace, bracket>>

\* The call of screen_csp for the current symbol; the data source answers
\* each call as it pleases.
ScreenCsp ==
    /\ pc = "csp"
    /\ \E price_resp \in PriceResponses, chain_resp \in ChainResponses :
          ScreenCspOn(price_resp, chain_resp)

\* bps_results = self.screen_bull_put_spread(symbol);
\* results['BPS'].extend(bps_results)
\* with the data source answering price_resp and chain_resp.
ScreenBpsOn(price_resp, chain_resp) ==
    LET r == screen_bull_put_spread(tickers[idx], price_resp, chain_resp)
        to == IF r.raised THEN ExceptContinue(idx) ELSE NextSymbol(idx)
    IN  /\ calls' = Requested(idx, r)
        /\ errlog' = Logged(idx, price_resp, chain_resp, r)
        /\ results' = IF r.raised THEN results
                      ELSE [results EXCEPT !.BPS = @ \o r.candidates]
        /\ pc' = to.pc
        /\ idx' = to.idx
        /\ UNCHANGED <<cfg, snapshot, first, run, trace, bracket>>

\* The call of screen_bull_put_spread for the current symbol.
ScreenBps ==
    /\ pc = "bps"
    /\ \E price_resp \in PriceResponses, chain_resp \in ChainResponses :
          ScreenBpsOn(price_resp, chain_resp)

\* The two sorts after the loop, and the return.
SortResults ==
    /\ pc = "sort"
    /\ results' = [CSP |-> SortByReturn(results.CSP),
                   BPS |-> SortByReturn(results.BPS)]
    /\ pc' = "done"
    /\ UNCHANGED <<cfg, idx, calls, errlog, snapshot, first, run, trace, bracket>>

Next == Main \/ ScreenCsp \/ ScreenBps \/ SortResults

Spec == Init /\ [][Next]_vars

\* The scan keeps running: screen_all_stocks is one sequential loop on one
\* thread, and every request to the data source returns or raises.
SpecFair == Spec /\ WF_vars(Next)

\* The configurations a run can be started with: the source's, and two
\* malformed ones (MIN_OTM_PERCENT >= MAX_OTM_PERCENT, SPREAD_WIDTH <= 0).
Configs ==
    { DefaultConfig,
      [DefaultConfig EXCEPT !.MIN_OTM_PERCENT = 10],
      [DefaultConfig EXCEPT !.SPREAD_WIDTH = 0] }

InitCfg ==
    /\ cfg \in Configs
    /\ pc = "main"
    /\ idx = 0
    /\ results = [CSP |-> << >>, BPS |-> << >>]
    /\ calls = [k \in 1..Len(tickers) |-> [price |-> 0, chain |-> 0]]
    /\ errlog = {}
    /\ snapshot = << >>
    /\ first = << >>
    /\ run = 1
    /\ trace = << >>
    /\ bracket = Unassigned

\* The program started with any of Configs.
SpecCfg == InitCfg /\ [][Next]_vars

---------------------------------------------------------------------------
(* The scan against a frozen data source, run twice *)

\* What a frozen data source answers for one symbol: every price request
\* gets the answer price, every chain request the answer chain.  The spot
\* is 100.0 with any chain, or the chain is the one with a strike of 96.0
\* with any answer to the price request.
Snapshots ==
    { s \in [price : PriceResponses, chain : ChainResponses] :
        \/ s.price = [kind |-> "ok", close |-> 1000]
        \/ s.chain = [kind |-> "ok", now |-> Morning,
                      exps |-> <<Exp(6, <<LegB, Far96>>)>>] }

InitSnap ==
    /\ cfg = DefaultConfig
    /\ pc = "main"
    /\ idx = 0
    /\ results = [CSP |-> << >>, BPS |-> << >>]
    /\ calls = [k \in 1..Len(tickers) |-> [price |-> 0, chain |-> 0]]
    /\ errlog = {}
    /\ snapshot \in [1..Len(tickers) -> Snapshots]
    /\ first = << >>
    /\ run = 1
    /\ trace = << >>
    /\ bracket = Unassigned

ScreenCspSnap ==
    /\ pc = "csp"
    /\ ScreenCspOn(snapshot[idx].price, snapshot[idx].chain)

ScreenBpsSnap ==
    /\ pc = "bps"
    /\ ScreenBpsOn(snapshot[idx].price, snapshot[idx].chain)

\* screen_all_stocks is called a second time on the same screener.
Rerun ==
    /\ pc = "done"
    /\ run = 1
    /\ run' = 2
    /\ first' = results
    /\ results' = NewResults
    /\ pc' = IF Len(tickers) = 0 THEN "sort" ELSE "csp"
    /\ idx' = 1
    /\ UNCHANGED <<cfg, calls, errlog, snapshot, trace, bracket>>

NextSnap == Main \/ ScreenCspSnap \/ ScreenBpsSnap \/ SortResults \/ Rerun

SpecSnap == InitSnap /\ [][NextSnap]_vars

---------------------------------------------------------------------------
(* One call of each screener on a chain put together from a pool of rows *)

\* Most rows a chain of SpecScreen has.
MaxRows == 4

Long852 == Row(852, 5, 7, 20, 60)
Even89 == Row(890, 10, 12, 20, 60)
Long904 == Row(904, 6, 8, 20, 60)
Thin897 == Row(897, 4, 6, 5, 25)
Dead899 == Row(899, 4, 6, 4, 24)
RichThin93 == Row(930, 200, 210, 9, 60)

\* The rows a chain is put together from, in ascending order of strike.
RowPool ==
    <<Long848, Long852, Long89, Even89, Thin897, Long898, Dead899, Short90, Long902,
      Long904, NoBid91, LegA, LegB, RichThin93, Deep94, Short95, Far96>>

\* A leg <<k, e>> is row RowPool[k] listed under expiration e: expiration 1
\* is day 6 and lists any row, expiration 2 is day 3 and lists three.
PoolLegs ==
    {<<k, 1>> : k \in DOMAIN RowPool}
    \cup {<<k, 2>> : k \in {j \in DOMAIN RowPool :
                                RowPool[j] \in {Long902, LegB, Short95}}}

ExpiryDay(e) == IF e = 1 THEN 6 ELSE 3

\* The subsets of S with at most n elements.
RECURSIVE UpTo(_, _)
UpTo(S, n) ==
    IF n = 0 THEN {{}}
    ELSE LET smaller == UpTo(S, n - 1)
         IN  smaller \cup {s \cup {x} : s \in smaller, x \in S}

\* No expiration lists a strike twice.
DistinctStrikes(legs) ==
    \A a \in legs, b \in legs :
        (a # b /\ a[2] = b[2]) => RowPool[a[1]].strike # RowPool[b[1]].strike

\* The rows with the pool positions ks, by ascending strike.
RECURSIVE Ascending(_)
Ascending(ks) ==
    IF ks = {} THEN << >>
    ELSE LET k == CHOOSE m \in ks : \A j \in ks : m <= j
         IN  <<RowPool[k]>> \o Ascending(ks \ {k})

Reverse(seq) == [k \in 1..Len(seq) |-> seq[Len(seq) + 1 - k]]

\* The put frame expiration e has when the chain holds legs.
PutsOf(legs, e, descending) ==
    LET rows == Ascending({l[1] : l \in {m \in legs : m[2] = e}})
    IN  IF descending THEN Reverse(rows) ELSE rows

\* The answer to the chain request when the chain holds legs; expirations
\* come by date, the rows of each by ascending or by descending strike.
ChainOf(legs, descending) ==
    [kind |-> "ok", now |-> Morning,
     exps |-> SelectSeq(<<Exp(ExpiryDay(2), PutsOf(legs, 2, descending)),
                          Exp(ExpiryDay(1), PutsOf(legs, 1, descending))>>,
                        LAMBDA exp : exp.puts # << >>)]

\* The inputs of a call: a spot of 100.0 or 101.0 and a chain of at most
\* MaxRows legs.
ScreenInputs ==
    { [price |-> [kind |-> "ok", close |-> spot], chain |-> ChainOf(legs, d)] :
        spot \in {1000, 1010},
        legs \in {l \in UpTo(PoolLegs, MaxRows) : DistinctStrikes(l)},
        d \in BOOLEAN }

InitScreen ==
    /\ cfg = DefaultConfig
    /\ pc = "screen_csp"
    /\ idx = 1
    /\ results = NewResults
    /\ calls = [k \in 1..Len(tickers) |-> [price |-> 0, chain |-> 0]]
    /\ errlog = {}
    /\ snapshot \in {<<input>> : input \in ScreenInputs}
    /\ first = << >>
    /\ run = 1
    /\ trace = << >>
    /\ bracket = Unassigned

\* screen_csp(symbol) for the first symbol of the universe.
CallScreenCsp ==
    /\ pc = "screen_csp"
    /\ LET r == screen_csp(tickers[idx], snapshot[idx].price,
                           snapshot[idx].chain)
       IN  /\ results' = [results EXCEPT !.CSP = r.candidates]
           /\ calls' = Requested(idx, r)
           /\ errlog' = Logged(idx, snapshot[idx].price, snapshot[idx].chain, r)
    /\ pc' = "screen_bps"
    /\ UNCHANGED <<cfg, idx, snapshot, first, run, trace, bracket>>

\* screen_bull_put_spread(symbol) for the same symbol.
CallScreenBps ==
    /\ pc = "screen_bps"
    /\ LET r == screen_bull_put_spread(tickers[idx], snapshot[idx].price,
                                       snapshot[idx].chain)
       IN  /\ results' = [results EXCEPT !.BPS = r.candidates]
           /\ trace' = r.iterations
           /\ calls' = Requested(idx, r)
           /\ errlog' = Logged(idx, snapshot[idx].price, snapshot[idx].chain, r)
    /\ pc' = "screened"
    /\ UNCHANGED <<cfg, idx, snapshot, first, run, bracket>>

NextScreen == CallScreenCsp \/ CallScreenBps

SpecScreen == InitScreen /\ [][NextScreen]_vars

---------------------------------------------------------------------------
(* The intraday bracket-order script *)

\* Most 5-minute bars the day has after its first three.
MaxBars == 2

\* The prices a bar can show.
Prices == 100..102

\* One bar of reqHistoricalData, with the columns the script reads.
Candle(o, c, h, l, v) ==
    [open |-> o, close |-> c, high |-> h, low |-> l, volume |-> v]

\* The bars there can be: low <= open, close <= high.
Candles ==
    { Candle(o, c, h, l, v) : o \in Prices, c \in Prices, h \in Prices,
                              l \in Prices, v \in 1..2 }
    \ { x \in [open : Prices, close : Prices, high : Prices, low : Prices,
                volume : 1..2] :
           x.low > x.open \/ x.low > x.close
               \/ x.high < x.open \/ x.high < x.close }

\* The first three bars of the day: wide, of either colour, and with less
\* volume than any later bar.
OpeningBars ==
    <<Candle(100, 102, 102, 100, 0), Candle(102, 100, 102, 100, 0),
      Candle(100, 102, 102, 100, 0)>>

\* The sequences over S with at most n elements.
RECURSIVE SeqsUpTo(_, _)
SeqsUpTo(S, n) ==
    IF n = 0 THEN {<< >>}
    ELSE LET shorter == SeqsUpTo(S, n - 1)
         IN  shorter \cup {Append(q, x) : q \in shorter, x \in S}

\* What the request for today's 5-minute bars can answer: one to three
\* opening bars, or all three and up to MaxBars more.
IntradayAnswers ==
    {SubSeq(OpeningBars, 1, n) : n \in 1..3}
    \cup {OpeningBars \o rest : rest \in SeqsUpTo(Candles, MaxBars)}

\* 'green' if x.close > x.open else 'red'
Color(x) == IF x.close > x.open THEN "green" ELSE "red"

\* df.iloc[3:]
After3(df) == SubSeq(df, 4, Len(df))

\* signal_candles.loc[signal_candles['volume'].idxmin()]: the first of the
\* bars with the least volume.
LowestVolume(signal_candles) ==
    LET k == CHOOSE i \in DOMAIN signal_candles :
                 \A j \in DOMAIN signal_candles :
                     \/ signal_candles[i].volume < signal_candles[j].volume
                     \/ (signal_candles[i].volume = signal_candles[j].volume
                            /\ i <= j)
    IN  signal_candles[k]

\* The direction the script trades in: against yesterday's move.
Direction(market_bias) == IF market_bias = "down" THEN "BUY" ELSE "SELL"

\* The colour of the bars the script looks for.
SignalColor(market_bias) == IF market_bias = "down" THEN "green" ELSE "red"

InitBracket ==
    /\ cfg = DefaultConfig
    /\ pc = "daily"
    /\ idx = 0
    /\ results = NewResults
    /\ calls = [k \in 1..Len(tickers) |-> [price |-> 0, chain |-> 0]]
    /\ errlog = {}
    /\ snapshot = << >>
    /\ first = << >>
    /\ run = 1
    /\ trace = << >>
    /\ bracket = Unassigned

\* Yesterday's daily bar is fetched and the market bias set.
FetchDailyBars ==
    /\ pc = "daily"
    /\ \E prev_open \in Prices, prev_close \in Prices :
          bracket' = [bracket EXCEPT
                         !.prev_open = prev_open,
                         !.prev_close = prev_close,
                         !.market_bias = IF prev_close > prev_open
                                         THEN "up" ELSE "down"]
    /\ pc' = "intraday"
    /\ UNCHANGED <<cfg, idx, results, calls, errlog, snapshot, first, run,
                   trace>>

\* Today's bars are fetched and the signal candle chosen; without one the
\* script disconnects and exits.
ChooseSignalCandle ==
    /\ pc = "intraday"
    /\ \E df \in IntradayAnswers :
          LET signal_candles ==
                  SelectSeq(After3(df), LAMBDA x :
                      Color(x) = SignalColor(bracket.market_bias))
              trade_direction == Direction(bracket.market_bias)
          IN  IF signal_candles = << >>
              THEN /\ bracket' = [bracket EXCEPT
                                      !.trade_direction = trade_direction]
                   /\ pc' = "exit"
              ELSE LET lowest_vol_candle == LowestVolume(signal_candles)
                   IN  /\ bracket' = [bracket EXCEPT
                                          !.trade_direction = trade_direction,
                                          !.high = lowest_vol_candle.high,
                                          !.low = lowest_vol_candle.low]
                       /\ pc' = "calculate"
    /\ UNCHANGED <<cfg, idx, results, calls, errlog, snapshot, first, run,
                   trace>>

\* Entry, stop and target are calculated.
CalculateLevels ==
    /\ pc = "calculate"
    /\ LET entry == bracket.low
           stop == bracket.high
           target == IF bracket.trade_direction = "BUY"
                     THEN entry + 2 * (entry - stop)
                     ELSE entry - 2 * (stop - entry)
       IN  bracket' = [bracket EXCEPT !.entry = entry, !.stop = stop,
                                      !.target = target]
    /\ pc' = "place"
    /\ UNCHANGED <<cfg, idx, results, calls, errlog, snapshot, first, run,
                   trace>>

\* ib.bracketOrder(...) and ib.placeOrder for each of its orders.
PlaceBracketOrder ==
    /\ pc = "place"
    /\ bracket' = [bracket EXCEPT !.placed =
                       <<[action |-> bracket.trade_direction,
                          totalQuantity |-> 10,
                          limitPrice |-> bracket.entry,
                          takeProfitPrice |-> bracket.target,
                          stopLossPrice |-> bracket.stop]>>]
    /\ pc' = "placed"
    /\ UNCHANGED <<cfg, idx, results, calls, errlog, snapshot, first, run,
                   trace>>

NextBracket ==
    FetchDailyBars \/ ChooseSignalCandle \/ CalculateLevels
        \/ PlaceBracketOrder

SpecBracket == InitBracket /\ [][NextBracket]_vars

---------------------------------------------------------------------------
(* Properties *)

Range(seq) == {seq[k] : k \in DOMAIN seq}

\* Every candidate held in results.
AllCandidates == Range(results.CSP) \cup Range(results.BPS)

IsPrefix(s, t) == Len(s) <= Len(t) /\ SubSeq(t, 1, Len(s)) = s

Count(seq, x) == Cardinality({k \in DOMAIN seq : seq[k] = x})

\* C1: the short strike of every candidate lies between
\* spot * (1 - MAX_OTM_PERCENT/100) and spot * (1 - MIN_OTM_PERCENT/100),
\* spot being the price recorded in the candidate.
C1_StrikeWindow ==
    \A c \in AllCandidates :
        /\ c.current_price * (100 - MAX_OTM_PERCENT) <= c.short_strike * 100
        /\ c.short_strike * 100 <= c.current_price * (100 - MIN_OTM_PERCENT)

\* A returned result holding a CSP candidate strictly inside the window and
\* a BPS candidate whose short strike is the upper end of the window.
C1_Witness ==
    /\ pc = "done"
    /\ \E c \in Range(results.CSP) :
          /\ c.current_price * (100 - MAX_OTM_PERCENT) < c.strike * 100
          /\ c.strike * 100 < c.current_price * (100 - MIN_OTM_PERCENT)
    /\ \E c \in Range(results.BPS) :
          c.short_strike * 100 = c.current_price * (100 - MIN_OTM_PERCENT)

\* Symbol number i has a logged failure (price request, chain request, or an
\* exception caught by screen_all_stocks).
Failed(i) == \E o \in {"get_current_price", "get_options_chain",
                       "screen_all_stocks"} : <<i, o>> \in errlog

\* C2: a symbol whose processing failed at any point contributes no
\* candidate to either result sequence.
C2_FailedSymbolContributesNothing ==
    \A i \in 1..Len(tickers) :
        Failed(i) => \A c \in AllCandidates : c.symbol # tickers[i]

\* One step of the loop leaves what was appended in place and only appends.
GrowOnly ==
    pc # "sort" => /\ IsPrefix(results.CSP, results'.CSP)
                   /\ IsPrefix(results.BPS, results'.BPS)

\* The final sort keeps every candidate, as many times as it was appended.
SortKeepsAll ==
    pc = "sort" =>
        /\ Len(results'.CSP) = Len(results.CSP)
        /\ Len(results'.BPS) = Len(results.BPS)
        /\ \A c \in Range(results.CSP) :
              Count(results'.CSP, c) = Count(results.CSP, c)
        /\ \A c \in Range(results.BPS) :
              Count(results'.BPS, c) = Count(results.BPS, c)

\* Once the loop is left, every symbol of the universe has been screened.
AllScreened ==
    pc \in {"sort", "done"} => \A i \in 1..Len(tickers) : calls[i].price >= 1

\* C3: a failure on one symbol neither aborts the scan nor touches the
\* candidates of other symbols: the result sequences only grow until the
\* final sort, the sort keeps every candidate unchanged, and the loop ends
\* only after every symbol was screened.
C3_FailureIsolation ==
    [][GrowOnly /\ SortKeepsAll]_vars /\ []AllScreened

\* A returned result in which the first symbol raised after its CSP
\* candidates were appended, these are still present, and the last symbol
\* was screened and contributed.
C3_Witness ==
    /\ pc = "done"
    /\ <<1, "screen_all_stocks">> \in errlog
    /\ \E c \in Range(results.CSP) : c.symbol = tickers[1]
    /\ \E c \in Range(results.BPS) : c.symbol = tickers[Len(tickers)]
    /\ Len(tickers) > 1

\* C4: within one scan the price and the chain of a symbol are requested
\* once each, and the CSP and BPS candidates of a symbol carry the same spot.
C4_FetchedOnce ==
    /\ \A i \in 1..Len(tickers) : calls[i].price <= 1 /\ calls[i].chain <= 1
    /\ \A c \in Range(results.CSP), b \in Range(results.BPS) :
          c.symbol = b.symbol => c.current_price = b.current_price

\* C5: every BPS candidate has long_strike < short_strike, net_credit > 0
\* and max_risk > 0.
C5_SpreadValidity ==
    \A c \in Range(results.BPS) :
        /\ c.long_strike < c.short_strike
        /\ c.credit.n > 0 /\ c.credit.d > 0
        /\ c.max_risk.n > 0 /\ c.max_risk.d > 0

\* A returned result holding a BPS candidate.
C5_Witness == pc = "done" /\ results.BPS # << >>

\* C6: the width of every BPS candidate is within 0.50 of SPREAD_WIDTH.
C6_WidthTolerance ==
    \A c \in Range(results.BPS) :
        Abs(c.short_strike - c.long_strike - SPREAD_WIDTH) <= Tolerance

\* A returned result holding a BPS candidate narrower than SPREAD_WIDTH and
\* one of exactly that width.
C6_Witness ==
    /\ pc = "done"
    /\ \E c \in Range(results.BPS) :
          c.short_strike - c.long_strike < SPREAD_WIDTH
    /\ \E c \in Range(results.BPS) :
          c.short_strike - c.long_strike = SPREAD_WIDTH

\* C7: every candidate has return_on_risk >= MIN_RETURN_ON_RISK.
C7_ReturnThreshold ==
    \A c \in AllCandidates :
        /\ c.return_on_risk.d > 0
        /\ c.return_on_risk.n >= MIN_RETURN_ON_RISK * c.return_on_risk.d

\* A returned result holding a CSP and a BPS candidate whose return on risk
\* is exactly MIN_RETURN_ON_RISK, and one above it.
C7_Witness ==
    /\ pc = "done"
    /\ \E c \in Range(results.CSP) : c.return_on_risk = I(MIN_RETURN_ON_RISK)
    /\ \E c \in Range(results.BPS) : c.return_on_risk = I(MIN_RETURN_ON_RISK)
    /\ \E c \in AllCandidates : RLt(I(MIN_RETURN_ON_RISK), c.return_on_risk)

\* C8: every candidate has MIN_DTE <= dte <= MAX_DTE, so that no
\* annualized_return was computed by a division by a dte of zero or less.
C8_DteWindow ==
    \A c \in AllCandidates :
        /\ MIN_DTE <= c.dte /\ c.dte <= MAX_DTE
        /\ c.dte > 0
        /\ c.annualized_return.d > 0

\* A returned result holding a candidate with dte = MIN_DTE and one with
\* dte = MAX_DTE.
C8_Witness ==
    /\ pc = "done"
    /\ \E c \in AllCandidates : c.dte = MIN_DTE
    /\ \E c \in AllCandidates : c.dte = MAX_DTE

\* seq is non-increasing in annualized_return.
NonIncreasing(seq) ==
    \A i, j \in DOMAIN seq :
        i < j => RLe(seq[j].annualized_return, seq[i].annualized_return)

\* The entries of seq whose annualized_return equals that of c, in order.
Ties(seq, c) ==
    SelectSeq(seq, LAMBDA x : REq(x.annualized_return, c.annualized_return))

\* The candidates of equal annualized_return are in after as in before.
KeepsArrivalOrder(before, after) ==
    /\ Len(after) = Len(before)
    /\ \A c \in Range(before) : Ties(after, c) = Ties(before, c)

\* Before the sort, the sequences are in arrival order: by position of the
\* symbol in the universe.
InUniverseOrder(seq) ==
    \A i, j \in DOMAIN seq :
        i < j => \E a, b \in 1..Len(tickers) :
                    a <= b /\ seq[i].symbol = tickers[a]
                           /\ seq[j].symbol = tickers[b]

\* C9: the returned sequences are non-increasing in annualized_return, and
\* candidates of equal annualized_return keep their arrival order, which is
\* universe order of the symbols and emission order within a symbol.
C9_SortedStable ==
    [][pc = "sort" =>
          /\ InUniverseOrder(results.CSP) /\ InUniverseOrder(results.BPS)
          /\ NonIncreasing(results'.CSP) /\ NonIncreasing(results'.BPS)
          /\ KeepsArrivalOrder(results.CSP, results'.CSP)
          /\ KeepsArrivalOrder(results.BPS, results'.BPS)]_vars

\* A returned CSP sequence in which a candidate of the second symbol stands
\* before one of the first (the sort moved it), two candidates of different
\* symbols tie, and two different candidates of one symbol tie.
C9_Witness ==
    /\ pc = "done"
    /\ Len(tickers) > 1
    /\ \E i, j \in DOMAIN results.CSP :
          /\ i < j
          /\ results.CSP[i].symbol = tickers[2]
          /\ results.CSP[j].symbol = tickers[1]
          /\ RLt(results.CSP[j].annualized_return,
                 results.CSP[i].annualized_return)
    /\ \E i, j \in DOMAIN results.CSP :
          /\ i < j
          /\ results.CSP[i].symbol = tickers[1]
          /\ results.CSP[j].symbol = tickers[2]
          /\ REq(results.CSP[i].annualized_return,
                 results.CSP[j].annualized_return)
    /\ \E i, j \in DOMAIN results.CSP :
          /\ i < j
          /\ results.CSP[i].symbol = results.CSP[j].symbol
          /\ results.CSP[i].dte # results.CSP[j].dte
          /\ REq(results.CSP[i].annualized_return,
                 results.CSP[j].annualized_return)

\* MIN_OTM_PERCENT >= MAX_OTM_PERCENT or SPREAD_WIDTH <= 0
Malformed(c) ==
    c.MIN_OTM_PERCENT >= c.MAX_OTM_PERCENT \/ c.SPREAD_WIDTH <= 0

\* C10: with a malformed configuration no scan starts: no symbol is ever
\* fetched or screened.
C10_MalformedConfigRejected ==
    Malformed(cfg) =>
        \A i \in 1..Len(tickers) : calls[i].price = 0 /\ calls[i].chain = 0


---------------------------------------------------------------------------
(* Properties of the scan against a frozen data source *)

SpotUnavailable(price_resp) == price_resp.kind # "ok" \/ price_resp.close = 0

\* The chain request fails, or no expiration of the answer with MIN_DTE to
\* MAX_DTE days left has a put.
ChainUnavailable(chain_resp) ==
    \/ chain_resp.kind = "error"
    \/ \A k \in DOMAIN chain_resp.exps :
          LET left == Days(chain_resp.exps[k].expiry, chain_resp.now)
          IN  \/ left < MIN_DTE
              \/ left > MAX_DTE
              \/ chain_resp.exps[k].puts = << >>

\* Symbol i has no price or no chain to screen.
Unavailable(i) ==
    SpotUnavailable(snapshot[i].price) \/ ChainUnavailable(snapshot[i].chain)

\* C12: a symbol whose spot price is unavailable, or whose chain is missing,
\* empty or without an expiration inside the DTE window, contributes no CSP
\* and no BPS candidate, raises nothing into screen_all_stocks, and the scan
\* goes on to the symbols after it.
C12_UnavailableSymbolSkipped ==
    \A i \in 1..Len(tickers) :
        Unavailable(i) =>
            /\ \A c \in AllCandidates : c.symbol # tickers[i]
            /\ <<i, "screen_all_stocks">> \notin errlog
            /\ (pc = "done" =>
                   \A j \in i..Len(tickers) : calls[j].price >= run)

C12_Witness ==
    /\ pc = "done"
    /\ \E i \in 1..Len(tickers) :
          /\ Unavailable(i)
          /\ ChainUnavailable(snapshot[i].chain)
          /\ \E c \in AllCandidates : c.symbol = tickers[i + 1]


---------------------------------------------------------------------------
(* Properties of one call of each screener *)

\* The spot price the data source answers in SpecScreen.
Spot == snapshot[1].price.close

\* The legs of the chain get_options_chain hands to the screeners, in fetched
\* order, each with its expiry and dte.
Legs ==
    LET chain == get_options_chain(snapshot[1].chain)
    IN  IF chain = None THEN << >> ELSE chain[1]

\* The leg has what a cash-secured put needs: strike inside the window,
\* volume, open interest, quotes, and a premium of at least
\* MIN_RETURN_ON_RISK percent of the strike.
CspQualifies(leg) ==
    /\ 100 * leg.strike >= Spot * (100 - MAX_OTM_PERCENT)
    /\ 100 * leg.strike <= Spot * (100 - MIN_OTM_PERCENT)
    /\ leg.volume >= MIN_VOLUME
    /\ leg.openInterest >= MIN_OPEN_INTEREST
    /\ leg.bid > 0
    /\ leg.ask > 0
    /\ 100 * (leg.bid + leg.ask) >= 2 * leg.strike * MIN_RETURN_ON_RISK

\* C13: screen_csp returns exactly one candidate for each leg that has the
\* strike, liquidity, quote and return criteria, in the order of the chain,
\* and none for any other leg; premium = (bid + ask) / 2, return_on_risk =
\* premium / strike * 100, max_risk = strike * 100, annualized_return =
\* return_on_risk * 365 / dte.  At a spot of 100.0 the leg (92, 1.0, 1.2) is
\* left out and the leg (92, 17.5, 19.3) with 5 days left is returned with
\* return_on_risk 20 and annualized_return 1460.
C13_CspExactlyTheQualifyingLegs ==
    pc \in {"screen_bps", "screened"} =>
        LET expected == SelectSeq(Legs, CspQualifies)
        IN  /\ Len(results.CSP) = Len(expected)
            /\ \A k \in 1..Len(expected) :
                  LET c == results.CSP[k]
                      leg == expected[k]
                      quotes == leg.bid + leg.ask
                  IN  /\ c.strike = leg.strike
                      /\ c.expiry = leg.expiry
                      /\ c.dte = leg.dte
                      /\ c.bid = leg.bid
                      /\ c.ask = leg.ask
                      /\ c.premium = Rat(quotes, 2)
                      /\ c.return_on_risk = Rat(quotes * 100, 2 * leg.strike)
                      /\ c.max_risk = leg.strike * 100
                      /\ c.annualized_return
                            = Rat(quotes * 100 * 365, 2 * leg.strike * leg.dte)
            /\ Spot = 1000 =>
                  \A c \in Range(results.CSP) :
                      /\ ~(c.strike = 920 /\ c.bid = 10 /\ c.ask = 12)
                      /\ (c.strike = 920 /\ c.bid = 175 /\ c.ask = 193
                             /\ c.dte = 5) =>
                            /\ c.return_on_risk = I(20)
                            /\ c.annualized_return = I(1460)

C13_Witness ==
    /\ pc = "screened"
    /\ Spot = 1000
    /\ Len(Legs) = 4
    /\ \E k \in DOMAIN Legs : Legs[k].strike = 910 /\ Legs[k].bid = 0
    /\ \E k \in DOMAIN Legs : Legs[k].strike = 930 /\ Legs[k].volume < MIN_VOLUME
    /\ Len(results.CSP) = 2
    /\ results.CSP[2].dte = 5
    /\ results.CSP[2].annualized_return = I(1460)


\* The legs of the chain listed under expiry with the given strike.
LegsAt(expiry, strike) ==
    {leg \in Range(Legs) : leg.expiry = expiry /\ leg.strike = strike}

\* C14: every BPS candidate has net_credit = short mid - long mid,
\* spread_width = short strike - long strike, max_risk = (spread_width -
\* net_credit) * 100, return_on_risk = net_credit / spread_width * 100 and
\* annualized_return = return_on_risk * 365 / dte; with short (95, 2.0, 2.2)
\* and long (90.2, 0.5, 0.7) that is net_credit 1.5, width 4.8, max_risk 330
\* and return_on_risk 31.25.
C14_BpsFields ==
    pc = "screened" =>
        \A c \in Range(results.BPS) :
            /\ \E short \in LegsAt(c.expiry, c.short_strike),
                  long \in LegsAt(c.expiry, c.long_strike) :
                  LET twice_credit == (short.bid + short.ask)
                                      - (long.bid + long.ask)
                      width == short.strike - long.strike
                  IN  /\ c.short_premium = Rat(short.bid + short.ask, 2)
                      /\ c.long_premium = Rat(long.bid + long.ask, 2)
                      /\ c.credit = Rat(twice_credit, 2)
                      /\ c.spread_width = width
                      /\ c.max_risk = Rat((2 * width - twice_credit) * 100, 2)
                      /\ c.return_on_risk = Rat(twice_credit * 100, 2 * width)
                      /\ c.annualized_return
                            = Rat(twice_credit * 100 * 365, 2 * width * c.dte)
            /\ (c.short_strike = 950 /\ c.long_strike = 902) =>
                  /\ c.credit = I(15)
                  /\ c.spread_width = 48
                  /\ c.max_risk = I(3300)
                  /\ c.return_on_risk = Rat(3125, 100)

C14_Witness ==
    /\ pc = "screened"
    /\ Spot = 1000
    /\ \E c \in Range(results.BPS) :
          /\ c.short_strike = 950
          /\ c.long_strike = 902
          /\ c.return_on_risk = Rat(125, 4)
          /\ c.max_risk = I(3300)
    /\ \E c \in Range(results.BPS) : c.spread_width > SPREAD_WIDTH


\* The leg passes the mask of screen_bull_put_spread: strike from min_strike
\* - SPREAD_WIDTH to max_strike, half the liquidity thresholds, quotes.
BpsKept(leg) ==
    /\ 100 * leg.strike >= Spot * (100 - MAX_OTM_PERCENT) - 100 * SPREAD_WIDTH
    /\ 100 * leg.strike <= Spot * (100 - MIN_OTM_PERCENT)
    /\ 2 * leg.volume >= MIN_VOLUME
    /\ 2 * leg.openInterest >= MIN_OPEN_INTEREST
    /\ leg.bid > 0
    /\ leg.ask > 0

\* The strike lies within the tolerance of short_strike - SPREAD_WIDTH.
InTolerance(strike, short_strike) ==
    /\ strike >= short_strike - SPREAD_WIDTH - Tolerance
    /\ strike <= short_strike - SPREAD_WIDTH + Tolerance

\* The candidates built on the short leg (expiry, strike), as a sequence.
SpreadsOn(expiry, strike) ==
    SelectSeq(results.BPS,
              LAMBDA c : c.expiry = expiry /\ c.short_strike = strike)

\* C15: a short leg yields at most one BPS candidate; a short leg whose
\* expiration has no leg within 0.50 of short strike - SPREAD_WIDTH yields
\* none and nothing is raised or logged; and the loop goes on: every leg
\* kept by the mask gets its own iteration, once.
C15_OneSpreadPerShortLeg ==
    pc = "screened" =>
        /\ \A s \in Range(Legs) :
              /\ Len(SpreadsOn(s.expiry, s.strike)) <= 1
              /\ (\A l \in Range(Legs) :
                     l.expiry = s.expiry => ~InTolerance(l.strike, s.strike))
                    => Len(SpreadsOn(s.expiry, s.strike)) = 0
              /\ BpsKept(s) =>
                    \E k \in DOMAIN trace :
                        /\ trace[k].expiry = s.expiry
                        /\ trace[k].short_strike = s.strike
        /\ \A j \in DOMAIN trace, k \in DOMAIN trace :
              (trace[j].expiry = trace[k].expiry
                  /\ trace[j].short_strike = trace[k].short_strike) => j = k
        /\ \A k \in DOMAIN trace : Len(trace[k].candidate) <= 1
        /\ errlog = {}

C15_Witness ==
    /\ pc = "screened"
    /\ \E j \in DOMAIN trace, k \in DOMAIN trace :
          /\ j < k
          /\ trace[j].expiry = trace[k].expiry
          /\ trace[j].outcome = "no_long"
          /\ trace[k].outcome = "appended"
          /\ \A l \in Range(Legs) :
                l.expiry = trace[j].expiry
                    => ~InTolerance(l.strike, trace[j].short_strike)


\* The legs of the short leg's expiration that pass the mask and lie in the
\* tolerance window of the short strike, in fetched order.
LongChoices(expiry, short_strike) ==
    SelectSeq(Legs, LAMBDA leg :
        /\ leg.expiry = expiry
        /\ BpsKept(leg)
        /\ InTolerance(leg.strike, short_strike))

\* The iterations of the short-leg loop that found a long leg.
Matched == {it \in Range(trace) : it.long # << >>}

LegsOf(c) ==
    LegsAt(c.expiry, c.short_strike) \cup LegsAt(c.expiry, c.long_strike)

\* C17: the leg of every CSP candidate has volume >= MIN_VOLUME and open
\* interest >= MIN_OPEN_INTEREST; both legs of every BPS candidate have
\* volume >= MIN_VOLUME / 2 and open interest >= MIN_OPEN_INTEREST / 2; every
\* leg of every candidate has bid > 0 and ask > 0.
C17_LiquidityAndQuotes ==
    pc = "screened" =>
        /\ \A c \in Range(results.CSP) :
              /\ c.volume >= MIN_VOLUME
              /\ c.open_interest >= MIN_OPEN_INTEREST
              /\ c.bid > 0
              /\ c.ask > 0
              /\ \E leg \in LegsAt(c.expiry, c.strike) :
                    /\ leg.volume = c.volume
                    /\ leg.openInterest = c.open_interest
                    /\ leg.bid = c.bid
                    /\ leg.ask = c.ask
        /\ \A c \in Range(results.BPS) :
              /\ \E leg \in LegsAt(c.expiry, c.short_strike) :
                    leg.volume = c.short_volume
              /\ \E leg \in LegsAt(c.expiry, c.long_strike) :
                    leg.volume = c.long_volume
              /\ \A leg \in LegsOf(c) :
                    /\ 2 * leg.volume >= MIN_VOLUME
                    /\ 2 * leg.openInterest >= MIN_OPEN_INTEREST
                    /\ leg.bid > 0
                    /\ leg.ask > 0

\* A spread with a leg below the full thresholds, beside a CSP candidate and
\* legs without a bid and below the halved thresholds that went into nothing.
C17_Witness ==
    /\ pc = "screened"
    /\ Len(results.CSP) > 0
    /\ \E c \in Range(results.BPS) :
          \E leg \in LegsOf(c) :
              leg.volume < MIN_VOLUME /\ leg.openInterest < MIN_OPEN_INTEREST
    /\ \E leg \in Range(Legs) : leg.bid = 0 \/ 2 * leg.volume < MIN_VOLUME


\* The leg is a short leg of the loop: it passes the mask and its strike is
\* in the window from min_strike to max_strike.
ShortLeg(leg) ==
    /\ BpsKept(leg)
    /\ 100 * leg.strike >= Spot * (100 - MAX_OTM_PERCENT)

\* The leg has half the liquidity thresholds and both quotes.
HalfLiquid(leg) ==
    /\ 2 * leg.volume >= MIN_VOLUME
    /\ 2 * leg.openInterest >= MIN_OPEN_INTEREST
    /\ leg.bid > 0
    /\ leg.ask > 0

\* C19: for every short leg in the strike window, down to min_strike itself,
\* whose expiration holds a leg with a strike within 0.50 of short strike -
\* SPREAD_WIDTH, half the liquidity thresholds and bid > 0, ask > 0, the loop
\* finds a long leg instead of skipping the short leg.
C19_LongLegFound ==
    pc = "screened" =>
        \A s \in Range(Legs) :
            (/\ ShortLeg(s)
             /\ \E l \in Range(Legs) :
                   /\ l.expiry = s.expiry
                   /\ InTolerance(l.strike, s.strike)
                   /\ HalfLiquid(l))
            => \E it \in Matched :
                   it.expiry = s.expiry /\ it.short_strike = s.strike

\* C20: the two legs of every BPS candidate are legs of one expiration, and
\* the candidate's expiry and dte are those of both legs: the long leg is
\* never taken from another expiration than the short leg's.
C20_SameExpiration ==
    pc = "screened" =>
        /\ \A c \in Range(results.BPS) :
              \E short \in LegsAt(c.expiry, c.short_strike),
                 long \in LegsAt(c.expiry, c.long_strike) :
                  /\ short.dte = c.dte
                  /\ long.dte = c.dte
                  /\ short.volume = c.short_volume
                  /\ long.volume = c.long_volume
        /\ \A it \in Matched : LegsAt(it.expiry, it.long[1]) # {}

\* A spread whose long leg was taken from its own expiration although
\* another expiration lists a higher strike of the tolerance window, while a
\* short leg of that other expiration found no long leg there.
C20_Witness ==
    /\ pc = "screened"
    /\ \E c \in Range(results.BPS) :
          \E l \in Range(Legs) :
              /\ l.expiry # c.expiry
              /\ InTolerance(l.strike, c.short_strike)
              /\ l.strike > c.long_strike
    /\ \E it \in Range(trace) :
          /\ it.outcome = "no_long"
          /\ \E l \in Range(Legs) :
                /\ l.expiry # it.expiry
                /\ BpsKept(l)
                /\ InTolerance(l.strike, it.short_strike)

\* Twice the net credit of the pairing of two legs, and twice its width.
TwiceCredit(short, long) == (short.bid + short.ask) - (long.bid + long.ask)
TwiceWidth(short, long) == 2 * (short.strike - long.strike)

\* C21: every BPS candidate has 0 < net_credit < spread_width and therefore
\* MIN_RETURN_ON_RISK <= return_on_risk < 100; a pairing whose net credit
\* equals or exceeds its width is rejected and never returned.
C21_CreditBelowWidth ==
    pc = "screened" =>
        /\ \A c \in Range(results.BPS) :
              /\ RLt(I(0), c.credit)
              /\ RLt(c.credit, I(c.spread_width))
              /\ RLe(I(MIN_RETURN_ON_RISK), c.return_on_risk)
              /\ RLt(c.return_on_risk, I(100))
        /\ \A it \in Matched :
              \A short \in LegsAt(it.expiry, it.short_strike),
                 long \in LegsAt(it.expiry, it.long[1]) :
                  TwiceCredit(short, long) >= TwiceWidth(short, long)
                      => (it.outcome = "rejected" /\ it.candidate = << >>)

\* A pairing whose credit equals its width was rejected in a call that
\* returned another spread.
C21_Witness ==
    /\ pc = "screened"
    /\ results.BPS # << >>
    /\ \E it \in Matched :
          /\ it.outcome = "rejected"
          /\ \E short \in LegsAt(it.expiry, it.short_strike),
                long \in LegsAt(it.expiry, it.long[1]) :
                 TwiceCredit(short, long) = TwiceWidth(short, long)

\* The chain answer of the snapshot with the rows of every expiration in
\* the opposite order.
Refetched ==
    LET chain_resp == snapshot[1].chain
    IN  [kind |-> chain_resp.kind, now |-> chain_resp.now,
         exps |-> [k \in DOMAIN chain_resp.exps |->
                      Exp(chain_resp.exps[k].expiry,
                          Reverse(chain_resp.exps[k].puts))]]

\* Which long strike, if any, each short leg was paired with.
Pairings(iterations) ==
    {<<it.expiry, it.short_strike, it.long>> : it \in Range(iterations)}

---------------------------------------------------------------------------
(* Termination and order of the scan *)

\* One step of the scan keeps to the order of the universe: the loop
\* variable stays or moves to the next symbol, whose screening then starts
\* with screen_csp, called once per symbol; requests go out for the current
\* symbol only; the sort starts only once the last symbol is dealt with, and
\* the return follows the sort.
InOrder ==
    /\ idx' \in {idx, idx + 1}
    /\ idx' = idx + 1 => pc' = "csp"
    /\ pc' = "csp" => (idx' = idx + 1 /\ calls'[idx'].price = 0)
    /\ \A j \in 1..Len(tickers) :
          calls'[j] # calls[j] => (j = idx /\ pc \in {"csp", "bps"})
    /\ pc \in {"csp", "bps"} => calls'[idx].price = calls[idx].price + 1
    /\ pc' = "sort" => (idx' = Len(tickers) /\ pc \in {"csp", "bps"})
    /\ pc = "sort" => pc' = "done"
    /\ pc' = "done" => pc = "sort"

\* C18: a scan over a finite universe terminates; it takes the symbols one
\* after the other in the order of the universe, each exactly once, sorts
\* only after the last symbol, and then returns.
C18_TerminatesInOrder ==
    /\ [][InOrder]_vars
    /\ <>(pc = "done")
    /\ [](pc = "done" => \A j \in 1..Len(tickers) : calls[j].price \in {1, 2})

\* The scan has returned with candidates of the first and of the last symbol.
C18_Witness ==
    /\ pc = "done"
    /\ idx = Len(tickers)
    /\ \E c \in AllCandidates : c.symbol = tickers[1]
    /\ \E c \in AllCandidates : c.symbol = tickers[Len(tickers)]
    /\ \A j \in 1..Len(tickers) : calls[j].price = 2


---------------------------------------------------------------------------
(* The bracket order of the intraday script *)

\* C23: the bracket order placed for a signal candle with high > low is
\* well-formed for its direction: for BUY the stop-loss price is below the
\* entry price and the take-profit price above it, for SELL the stop-loss is
\* above the entry and the take-profit below it; in both cases
\* |target - entry| = 2 * |stop - entry|.
C23_BracketWellFormed ==
    (pc = "placed" /\ bracket.high > bracket.low) =>
        \A o \in Range(bracket.placed) :
            /\ o.action = "BUY" =>
                  /\ o.stopLossPrice < o.limitPrice
                  /\ o.takeProfitPrice > o.limitPrice
            /\ o.action = "SELL" =>
                  /\ o.stopLossPrice > o.limitPrice
                  /\ o.takeProfitPrice < o.limitPrice
            /\ Abs(o.takeProfitPrice - o.limitPrice)
                   = 2 * Abs(o.stopLossPrice - o.limitPrice)

============================================================================
